---- MODULE Spec2Model ----
(***************************************************************************)
(* Model of the SolGuard AI vulnerability detection engine                 *)
(* (src/app/ai_detector.py, class AIVulnerabilityDetector).                *)
(*                                                                         *)
(* Source texts are TLA+ strings; positions follow Python's 0-based,       *)
(* end-exclusive convention wherever the code uses match.start(),          *)
(* match.end() or a slice.  Confidences and the running security score are *)
(* IEEE-754 doubles, carried exactly as multiples of 2^-53 and rounded to   *)
(* nearest-even after every multiplication and subtraction, as the         *)
(* interpreter does.  Feature ratios and anomaly scores are carried in      *)
(* units of 10^-6 (Unit), rounded toward zero.                             *)
(***************************************************************************)
EXTENDS Integers, Sequences, FiniteSets, TLC

VARIABLES
    patterns,             \* self.patterns
    historical_exploits,  \* self.historical_exploits
    quantum_patterns,     \* self.quantum_patterns
    call,                 \* the method invocation in progress and its arguments
    ret                   \* its return value, once it has returned

vars == <<patterns, historical_exploits, quantum_patterns, call, ret>>

-----------------------------------------------------------------------------
(* Bounds of the model                                                     *)

MaxPieces == 3      \* a source text is made of at most this many pieces
MaxRep == 13        \* lines of the repeated block of source text
MaxRuns == 3        \* a finding list is made of at most this many runs
MaxRun == 5         \* longest run of one finding in a finding list
MaxTime == 2        \* epoch seconds the clock may show
MaxStatements == 1  \* statements between the guard and the transfer of a snippet
MaxWords == 2       \* words of a text handed to one detection source
MaxCalls == 2       \* calls of analyze_program in flight on one detector
MaxMarkers == 2     \* risk markers written before the matched text
MaxScores == 200    \* steps of the grid of anomaly scores from 0 to 1
MaxDraws == 16      \* steps of the grid of the values a random score may take

-----------------------------------------------------------------------------
(* Numbers                                                                 *)

Unit == 1000000

Min(a, b) == IF a <= b THEN a ELSE b
Max(a, b) == IF a >= b THEN a ELSE b
Abs(a) == IF a < 0 THEN -a ELSE a
SetMin(S) == CHOOSE x \in S : \A y \in S : x <= y
SetMax(S) == CHOOSE x \in S : \A y \in S : x >= y

\* Python int(x) of the fixed-point value v: truncation toward zero.
PyInt(v) == IF v >= 0 THEN v \div Unit ELSE -((-v) \div Unit)

\* A double is the record [neg, i, h, l] of value
\* (+/-) (i + (h * FracLow + l) / 2^53), with 0 <= h < FracHigh and
\* 0 <= l < FracLow.
FracHigh == 67108864      \* 2^26
FracLow == 134217728      \* 2^27

Double(i, h, l) == [neg |-> FALSE, i |-> i, h |-> h, l |-> l]

\* the literals of the code, as the doubles the interpreter reads them as
D0_5 == Double(0, 33554432, 0)
D0_7 == Double(0, 46976204, 107374182)
D0_75 == Double(0, 50331648, 0)
D0_8 == Double(0, 53687091, 26843546)
D0_85 == Double(0, 57042534, 53687091)
D0_88 == Double(0, 59055800, 42949673)
D0_9 == Double(0, 60397977, 80530637)
D0_95 == Double(0, 63753420, 107374182)
D1_0 == Double(1, 0, 0)
\* the doubles one below 0.8 and 0.9, which 0.7 + 0.1 and 0.7 + 0.1 + 0.1 are
D0_8_Below == Double(0, 53687091, 26843545)
D0_9_Below == Double(0, 60397977, 80530636)

\* carries of a magnitude whose parts have outgrown their ranges
Carry(i, h, l) ==
    LET h1 == h + l \div FracLow
    IN Double(i + h1 \div FracHigh, h1 % FracHigh, l % FracLow)

\* |a| < |b|
MagLess(a, b) ==
    \/ a.i < b.i
    \/ a.i = b.i /\ a.h < b.h
    \/ a.i = b.i /\ a.h = b.h /\ a.l < b.l

\* |a| + |b|, exactly
MagAdd(a, b) == Carry(a.i + b.i, a.h + b.h, a.l + b.l)

\* |a| - |b| for |a| >= |b|, exactly
MagSub(a, b) ==
    LET bl == IF a.l < b.l THEN 1 ELSE 0
        bh == IF a.h - bl < b.h THEN 1 ELSE 0
    IN Double(a.i - b.i - bh,
              a.h - bl - b.h + bh * FracHigh,
              a.l - b.l + bl * FracLow)

\* k * |a| for a small natural k, exactly
MagMul(k, a) == Carry(k * a.i, k * a.h, k * a.l)

RECURSIVE Spacing(_)
\* the distance between neighbouring doubles of integer part i, in 2^-53
Spacing(i) == IF i = 0 THEN 1 ELSE 2 * Spacing(i \div 2)

\* the double nearest to the magnitude a, ties to the even mantissa
RoundNearestEven(a) ==
    LET q == Spacing(a.i)
        r == a.l % q
        up == \/ 2 * r > q
              \/ 2 * r = q /\ (a.l \div q) % 2 = 1
    IN Carry(a.i, a.h, a.l - r + (IF up THEN q ELSE 0))

\* x - y in double arithmetic, for y >= 0
DoubleSub(x, y) ==
    IF x.neg
    THEN [RoundNearestEven(MagAdd(x, y)) EXCEPT !.neg = TRUE]
    ELSE IF MagLess(x, y)
         THEN [RoundNearestEven(MagSub(y, x)) EXCEPT !.neg = TRUE]
         ELSE RoundNearestEven(MagSub(x, y))

\* k * c in double arithmetic, for an int k >= 0 and a double c >= 0
DoubleMul(k, c) == RoundNearestEven(MagMul(k, c))

\* x >= y for doubles x, y >= 0
DoubleGeq(x, y) == ~MagLess(x, y)

\* Python int(x) of a double: truncation toward zero
DoubleInt(x) == IF x.neg THEN -x.i ELSE x.i

\* base_confidence += 0.1 and += 0.05, for the values base_confidence takes
AddTenth(c) ==
    CASE c = D0_7 -> D0_8_Below
      [] c = D0_8_Below -> D0_9_Below
      [] c = D0_75 -> D0_85
      [] c = D0_85 -> D0_95
AddTwentieth(c) ==
    CASE c = D0_7 -> D0_75
      [] c = D0_8_Below -> D0_85

RECURSIVE Halvings(_, _)
\* the first n binary digits of r / Unit and what is left, for 0 <= r < Unit
Halvings(r, n) ==
    IF n = 0 THEN [q |-> 0, r |-> r]
    ELSE LET p == Halvings(r, n - 1)
             d == 2 * p.r
         IN IF d >= Unit THEN [q |-> 2 * p.q + 1, r |-> d - Unit]
            ELSE [q |-> 2 * p.q, r |-> d]

\* the value v >= 0 in Unit, read as a double
FromUnit(v) ==
    LET high == Halvings(v % Unit, 26)
        low == Halvings(high.r, 27)
    IN Double(v \div Unit, high.q, low.q)

-----------------------------------------------------------------------------
(* Text                                                                    *)

Char(s, i) == SubSeq(s, i, i)

\* s[a:b] of Python, for 0 <= a and b <= len(s)
PySlice(s, a, b) == SubSeq(s, a + 1, b)

\* the text t occurs in s at the (1-based) position i
StartsAt(s, i, t) ==
    /\ i >= 1
    /\ i + Len(t) - 1 <= Len(s)
    /\ SubSeq(s, i, i + Len(t) - 1) = t

\* the positions at which t occurs in s
Occurrences(s, t) == {i \in 1..(Len(s) - Len(t) + 1) : StartsAt(s, i, t)}

\* t in s
Contains(s, t) == \E i \in 1..(Len(s) - Len(t) + 1) : StartsAt(s, i, t)

UpperAlphabet == "ABCDEFGHIJKLMNOPQRSTUVWXYZ"
LowerAlphabet == "abcdefghijklmnopqrstuvwxyz"

LowerMap == [k \in 1..26 |-> Char(LowerAlphabet, k)]
UpperMap == [k \in 1..26 |-> Char(UpperAlphabet, k)]
UpperLetters == {UpperMap[k] : k \in 1..26}
LowerLetters == {LowerMap[k] : k \in 1..26}

LowerChar(c) ==
    IF c \in UpperLetters THEN LowerMap[CHOOSE k \in 1..26 : UpperMap[k] = c] ELSE c

UpperChar(c) ==
    IF c \in LowerLetters THEN UpperMap[CHOOSE k \in 1..26 : LowerMap[k] = c] ELSE c

RECURSIVE Lower(_)
\* str.lower()
Lower(s) ==
    IF Len(s) = 0 THEN s
    ELSE IF Len(s) = 1 THEN LowerChar(s)
    ELSE LET h == Len(s) \div 2
         IN Lower(SubSeq(s, 1, h)) \o Lower(SubSeq(s, h + 1, Len(s)))

RECURSIVE Upper(_)
\* str.upper()
Upper(s) ==
    IF Len(s) = 0 THEN s
    ELSE IF Len(s) = 1 THEN UpperChar(s)
    ELSE LET h == Len(s) \div 2
         IN Upper(SubSeq(s, 1, h)) \o Upper(SubSeq(s, h + 1, Len(s)))

RECURSIVE Remove(_, _)
\* s.replace(c, "") for a single character c
Remove(s, c) ==
    IF Len(s) = 0 THEN s
    ELSE IF Len(s) = 1 THEN (IF s = c THEN "" ELSE s)
    ELSE LET h == Len(s) \div 2
         IN Remove(SubSeq(s, 1, h), c) \o Remove(SubSeq(s, h + 1, Len(s)), c)

RECURSIVE CountFrom(_, _, _)
\* the number of occurrences that a left-to-right scan from the position pos
\* on counts when each counted occurrence of length n is skipped over
CountFrom(occ, n, pos) ==
    LET rest == {i \in occ : i >= pos}
    IN IF rest = {} THEN 0 ELSE 1 + CountFrom(rest, n, SetMin(rest) + n)

\* s.count(t): the non-overlapping occurrences of t in s
Count(s, t) == CountFrom(Occurrences(s, t), Len(t), 1)

RECURSIVE Rep(_, _)
\* s * k
Rep(s, k) == IF k <= 0 THEN "" ELSE s \o Rep(s, k - 1)

\* positions of the newline characters of s
Newlines(s) == {i \in 1..Len(s) : Char(s, i) = "\n"}

\* the position of the first newline at or after i, Len(s) + 1 when there is none:
\* where "." stops matching
EndOfLine(s, nl, i) == SetMin({j \in nl : j >= i} \cup {Len(s) + 1})

WhiteSpace == {" ", "\t", "\n", "\r"}
WordChars == LowerLetters \cup UpperLetters
             \cup {"0", "1", "2", "3", "4", "5", "6", "7", "8", "9", "_"}

\* the first position at or after i that does not hold a character of the class
SkipClass(s, i, class) ==
    SetMin({j \in i..Len(s) : Char(s, j) \notin class} \cup {Len(s) + 1})


-----------------------------------------------------------------------------
(* The static tables built by __init__                                     *)

RxMissingSigner == "(?!.*require!.*Signer).*Transfer.*"
RxCheckedArith == "\\.checked_(add|sub|mul|div)\\("
RxAccount == "Account<'info,\\s*\\w+>.*(?!init)"
RxReentrancy == "(invoke|invoke_signed).*\\n.*state\\s*="
RxClassicalCrypto == "(ed25519|secp256k1|ECDSA)(?!.*quantum)"

InitializePatterns ==
    << [vuln_type |-> "missing_signer_check",
        pattern |-> RxMissingSigner,
        severity |-> 9,
        description |-> "Missing signer verification before token transfer",
        recommendation |-> "Add require!(ctx.accounts.authority.is_signer) before transfers",
        confidence_threshold |-> D0_85],
       [vuln_type |-> "integer_overflow",
        pattern |-> RxCheckedArith,
        severity |-> 8,
        description |-> "Arithmetic operation without overflow protection",
        recommendation |-> "Use checked_add/sub/mul/div instead of direct arithmetic",
        confidence_threshold |-> D0_9],
       [vuln_type |-> "uninitialized_account",
        pattern |-> RxAccount,
        severity |-> 7,
        description |-> "Account used without initialization check",
        recommendation |-> "Add #[account(init)] or verify account is initialized",
        confidence_threshold |-> D0_8],
       [vuln_type |-> "reentrancy",
        pattern |-> RxReentrancy,
        severity |-> 10,
        description |-> "State change after external call (reentrancy risk)",
        recommendation |-> "Update state before making external calls (checks-effects-interactions)",
        confidence_threshold |-> D0_95],
       [vuln_type |-> "quantum_vulnerable",
        pattern |-> RxClassicalCrypto,
        severity |-> 6,
        description |-> "Uses classical cryptography vulnerable to quantum attacks",
        recommendation |-> "Implement post-quantum cryptographic signatures (Dilithium, SPHINCS+)",
        confidence_threshold |-> D0_75] >>

InitializeQuantumPatterns ==
    << [name |-> "Classical Signature Scheme",
        indicators |-> <<"ed25519", "secp256k1", "ECDSA", "RSA">>,
        quantum_safe |-> FALSE,
        severity |-> 6,
        recommendation |-> "Migrate to CRYSTALS-Dilithium or SPHINCS+"],
       [name |-> "Symmetric Encryption",
        indicators |-> <<"AES-128", "AES-192">>,
        quantum_safe |-> FALSE,
        severity |-> 5,
        recommendation |-> "Use AES-256 minimum (provides 128-bit quantum security)"],
       [name |-> "Hash Functions",
        indicators |-> <<"SHA-256", "SHA3-256">>,
        quantum_safe |-> TRUE,
        severity |-> 0,
        recommendation |-> "SHA-256/SHA3 are quantum-resistant"] >>

\* _load_historical_data with the signature stored under another key
LoadHistoricalData_RenamedKey ==
    << [exploit_type |-> "reentrancy",
        loss_amount |-> "40,000,000",
        date |-> "2026-01-30",
        signature |-> "external_call_before_state_update"],
       [exploit_type |-> "unauthorized_access",
        loss_amount |-> "3,100,000,000",
        date |-> "2025-12-15",
        signature |-> "missing_authority_check"] >>

\* loss_amount is kept as the text that the format {loss_amount:,} gives it
LoadHistoricalData ==
    << [exploit_type |-> "reentrancy",
        loss_amount |-> "40,000,000",
        date |-> "2026-01-30",
        pattern_signature |-> "external_call_before_state_update"],
       [exploit_type |-> "unauthorized_access",
        loss_amount |-> "3,100,000,000",
        date |-> "2025-12-15",
        pattern_signature |-> "missing_authority_check"] >>

-----------------------------------------------------------------------------
(* Regular expression matching: re.finditer(pattern, code,                 *)
(* re.MULTILINE | re.IGNORECASE).  A scanned text is the record            *)
(* [s: the text, low: its lower-cased form, nl: its newline positions,     *)
(* transfer, require, signer: where these words occur in low].             *)
(* Each Match operator gives, for a 1-based start position i, the position *)
(* just after the match that the backtracking matcher finds at i, or 0     *)
(* when there is none.                                                     *)

Scanned(code) ==
    LET low == Lower(code)
    IN [s |-> code, low |-> low, nl |-> Newlines(code),
        transfer |-> Occurrences(low, "transfer"),
        require |-> Occurrences(low, "require!"),
        signer |-> Occurrences(low, "signer")]

\* (?!.*require!.*Signer).*Transfer.*
\* The lookahead fails when the rest of the line holds "require!" and later
\* "signer"; ".*Transfer.*" then needs "transfer" in the rest of the line and
\* the last ".*" runs to the end of the line.
MatchMissingSigner(T, i) ==
    LET e == EndOfLine(T.s, T.nl, i)
        lookahead ==
            \E a \in T.require :
                /\ i <= a /\ a <= e - 8
                /\ \E b \in T.signer : a + 8 <= b /\ b <= e - 6
        transfer == \E t \in T.transfer : i <= t /\ t <= e - 8
    IN IF transfer /\ ~lookahead THEN e ELSE 0

\* \.checked_(add|sub|mul|div)\(
MatchCheckedArith(T, i) ==
    IF /\ StartsAt(T.low, i, ".checked_")
       /\ \E op \in {"add", "sub", "mul", "div"} : StartsAt(T.low, i + 9, op)
       /\ StartsAt(T.low, i + 12, "(")
    THEN i + 13 ELSE 0

\* Account<'info,\s*\w+>.*(?!init)
\* After ".*" has run to the end of the line the next character is a newline
\* or the end of the text, so the lookahead (?!init) succeeds there.
MatchAccount(T, i) ==
    IF ~StartsAt(T.low, i, "account<'info,") THEN 0
    ELSE LET w == SkipClass(T.s, i + 14, WhiteSpace)
             g == SkipClass(T.s, w, WordChars)
         IN IF g > w /\ StartsAt(T.s, g, ">")
            THEN EndOfLine(T.s, T.nl, g + 1) ELSE 0

\* (invoke|invoke_signed).*\n.*state\s*=
\* ".*" must stop at a newline; on the next line the greedy ".*" keeps the
\* last "state" that is followed by white space and "=".
MatchReentrancy(T, i) ==
    IF ~StartsAt(T.low, i, "invoke") THEN 0
    ELSE LET e == EndOfLine(T.s, T.nl, i + 6)
         IN IF e > Len(T.s) THEN 0
            ELSE LET e2 == EndOfLine(T.s, T.nl, e + 1)
                     ends == {SkipClass(T.s, t + 5, WhiteSpace) + 1 :
                                 t \in {u \in (e + 1)..(e2 - 5) :
                                          /\ StartsAt(T.low, u, "state")
                                          /\ StartsAt(T.s, SkipClass(T.s, u + 5, WhiteSpace), "=")}}
                 IN IF ends = {} THEN 0 ELSE SetMax(ends)

\* (ed25519|secp256k1|ECDSA)(?!.*quantum)
MatchClassicalCrypto(T, i) ==
    LET lits == {w \in {"ed25519", "secp256k1", "ecdsa"} : StartsAt(T.low, i, w)}
    IN IF lits = {} THEN 0
       ELSE LET m == i + Len(CHOOSE w \in lits : TRUE)
                e == EndOfLine(T.s, T.nl, m)
            IN IF \E q \in m..(e - 7) : StartsAt(T.low, q, "quantum") THEN 0 ELSE m

MatchAt(T, rx, i) ==
    CASE rx = RxMissingSigner -> MatchMissingSigner(T, i)
      [] rx = RxCheckedArith -> MatchCheckedArith(T, i)
      [] rx = RxAccount -> MatchAccount(T, i)
      [] rx = RxReentrancy -> MatchReentrancy(T, i)
      [] rx = RxClassicalCrypto -> MatchClassicalCrypto(T, i)

RECURSIVE FindFrom(_, _)
\* the matches from the position pos on: the leftmost start that matches,
\* then the search resumes where that match ended
FindFrom(tab, pos) ==
    LET starts == {i \in pos..Len(tab) : tab[i] # 0}
    IN IF starts = {} THEN << >>
       ELSE LET i == SetMin(starts)
            IN << [start |-> i - 1, end |-> tab[i] - 1] >> \o FindFrom(tab, tab[i])

\* re.finditer: the matches as records of match.start() and match.end()
FindIter(rx, code) ==
    LET T == Scanned(code)
        tab == [i \in 1..Len(code) |-> MatchAt(T, rx, i)]
    IN FindFrom(tab, 1)

-----------------------------------------------------------------------------
(* The detection sources                                                   *)

ContextRadius == 100
BaseConfidence == D0_7

\* dict.get(key, default)
Get(d, key, default) == IF key \in DOMAIN d THEN d[key] ELSE default

\* _calculate_confidence looking at the whole text instead of the window
CalculateConfidence_WholeText(code, match, pattern) ==
    LET c1 == IF Contains(code, "unsafe")
              THEN AddTenth(BaseConfidence) ELSE BaseConfidence
        c2 == IF Contains(code, "unwrap()") THEN AddTwentieth(c1) ELSE c1
        c3 == IF ~Contains(code, "require!") THEN AddTenth(c2) ELSE c2
    IN IF MagLess(D1_0, c3) THEN D1_0 ELSE c3

\* _calculate_confidence
CalculateConfidence(code, match, pattern) ==
    LET context_start == Max(0, match.start - ContextRadius)
        context_end == Min(Len(code), match.end + ContextRadius)
        context == PySlice(code, context_start, context_end)
        c1 == IF Contains(context, "unsafe")
              THEN AddTenth(BaseConfidence) ELSE BaseConfidence
        c2 == IF Contains(context, "unwrap()") THEN AddTwentieth(c1) ELSE c1
        c3 == IF ~Contains(context, "require!") THEN AddTenth(c2) ELSE c2
    IN IF MagLess(D1_0, c3) THEN D1_0 ELSE c3

\* f"Line {code[:match.start()].count(chr(10)) + 1}"
LineOf(code, match) ==
    "Line " \o ToString(Count(PySlice(code, 0, match.start), "\n") + 1)

RECURSIVE DetectMatches(_, _, _)
\* the loop of _detect_pattern over the matches
DetectMatches(code, pattern, matches) ==
    IF matches = << >> THEN << >>
    ELSE LET match == Head(matches)
             confidence == CalculateConfidence(code, match, pattern)
             found == IF DoubleGeq(confidence, pattern.confidence_threshold)
                      THEN << [type |-> pattern.vuln_type,
                               severity |-> pattern.severity,
                               description |-> pattern.description,
                               location |-> LineOf(code, match),
                               confidence |-> confidence,
                               recommendation |-> pattern.recommendation] >>
                      ELSE << >>
         IN found \o DetectMatches(code, pattern, Tail(matches))

\* _detect_pattern
DetectPattern(code, pattern) ==
    DetectMatches(code, pattern, FindIter(pattern.pattern, code))

\* x / (m + 1e-10) in Unit, for 0 <= x <= m; 0 / 1e-10 is 0
Normalized(x, m) ==
    IF m = 0 THEN 0 ELSE (x \div m) * Unit + ((x % m) * Unit) \div m

\* _extract_features without the code length among the features
ExtractFeatures_NoLength(code) ==
    LET features == << 0,
                       Count(code, "\n"),
                       Count(code, "fn "),
                       Count(code, "require!"),
                       Count(code, "invoke"),
                       Count(code, "Transfer"),
                       Count(code, "mut "),
                       Count(code, "unsafe") >>
        m == SetMax({features[k] : k \in 1..8})
    IN [k \in 1..8 |-> Normalized(features[k], m)]

\* _extract_features
ExtractFeatures(code) ==
    LET features == << Len(code),
                       Count(code, "\n"),
                       Count(code, "fn "),
                       Count(code, "require!"),
                       Count(code, "invoke"),
                       Count(code, "Transfer"),
                       Count(code, "mut "),
                       Count(code, "unsafe") >>
        m == SetMax({features[k] : k \in 1..8})
    IN [k \in 1..8 |-> Normalized(features[k], m)]

ExpectedChecksRatio == 100000
ExpectedUnsafeRatio == 10000

\* _compute_anomaly_score reading the elements 3 and 7 counted from one, the
\* "fn " count and the "mut " count
ComputeAnomalyScore_OneBased(features) ==
    LET checks_deviation == Abs(features[3] - ExpectedChecksRatio)
        unsafe_deviation == Abs(features[7] - ExpectedUnsafeRatio)
        anomaly_score == (checks_deviation + unsafe_deviation * 5) \div 2
    IN Min(anomaly_score, Unit)

\* _compute_anomaly_score; features[3] and features[7] of the code are the
\* 4th and the 8th element here
ComputeAnomalyScore(features) ==
    LET checks_deviation == Abs(features[4] - ExpectedChecksRatio)
        unsafe_deviation == Abs(features[8] - ExpectedUnsafeRatio)
        anomaly_score == (checks_deviation + unsafe_deviation * 5) \div 2
    IN Min(anomaly_score, Unit)

AnomalyThreshold == 700000

\* the format {x:.2f} of a value in Unit
Format2f(x) ==
    LET cents == (x + 5000) \div 10000
    IN ToString(cents \div 100) \o "." \o ToString((cents % 100) \div 10)
                                \o ToString(cents % 10)

\* _ml_anomaly_detection reporting a score equal to the threshold too
AnomalyFindings_AtThreshold(anomaly_score) ==
    IF anomaly_score >= AnomalyThreshold
    THEN << [type |-> "anomaly_detected",
             severity |-> PyInt(anomaly_score * 10),
             description |-> "Unusual code patterns detected (anomaly score: "
                             \o Format2f(anomaly_score) \o ")",
             location |-> "Multiple locations",
             confidence |-> FromUnit(anomaly_score),
             recommendation |-> "Manual review recommended for unusual patterns"] >>
    ELSE << >>

\* _ml_anomaly_detection with the comparison against 0.7 turned around
AnomalyFindings_Inverted(anomaly_score) ==
    IF anomaly_score < AnomalyThreshold
    THEN << [type |-> "anomaly_detected",
             severity |-> PyInt(anomaly_score * 10),
             description |-> "Unusual code patterns detected (anomaly score: "
                             \o Format2f(anomaly_score) \o ")",
             location |-> "Multiple locations",
             confidence |-> FromUnit(anomaly_score),
             recommendation |-> "Manual review recommended for unusual patterns"] >>
    ELSE << >>

\* the finding that _ml_anomaly_detection makes of an anomaly score
AnomalyFindings(anomaly_score) ==
    IF anomaly_score > AnomalyThreshold
    THEN << [type |-> "anomaly_detected",
             severity |-> PyInt(anomaly_score * 10),
             description |-> "Unusual code patterns detected (anomaly score: "
                             \o Format2f(anomaly_score) \o ")",
             location |-> "Multiple locations",
             confidence |-> FromUnit(anomaly_score),
             recommendation |-> "Manual review recommended for unusual patterns"] >>
    ELSE << >>

\* _ml_anomaly_detection
MlAnomalyDetection(code) ==
    AnomalyFindings(ComputeAnomalyScore(ExtractFeatures(code)))

QuantumConfidence == D0_95

\* the quantum finding made of a table entry
QuantumFinding(pattern) ==
    [type |-> "quantum_vulnerable",
     severity |-> pattern.severity,
     description |-> "Uses " \o pattern.name \o " which is vulnerable to quantum attacks",
     location |-> "Cryptographic implementation",
     confidence |-> QuantumConfidence,
     recommendation |-> pattern.recommendation]

RECURSIVE QuantumIndicatorLoop_BreakAtFirst(_, _, _)
\* the inner loop of _assess_quantum_resistance leaving at the first indicator found
QuantumIndicatorLoop_BreakAtFirst(code_lower, pattern, k) ==
    IF k > Len(pattern.indicators) THEN << >>
    ELSE IF Contains(code_lower, Lower(pattern.indicators[k]))
         THEN (IF ~pattern.quantum_safe THEN << QuantumFinding(pattern) >> ELSE << >>)
         ELSE QuantumIndicatorLoop_BreakAtFirst(code_lower, pattern, k + 1)

RECURSIVE QuantumIndicatorLoop_NoSafeTest(_, _, _)
\* the inner loop of _assess_quantum_resistance without the test of quantum_safe
QuantumIndicatorLoop_NoSafeTest(code_lower, pattern, k) ==
    IF k > Len(pattern.indicators) THEN << >>
    ELSE (IF Contains(code_lower, Lower(pattern.indicators[k]))
          THEN << QuantumFinding(pattern) >>
          ELSE << >>)
         \o QuantumIndicatorLoop_NoSafeTest(code_lower, pattern, k + 1)

RECURSIVE QuantumIndicatorLoop(_, _, _)
\* the inner loop of _assess_quantum_resistance over the indicators of a pattern
QuantumIndicatorLoop(code_lower, pattern, k) ==
    IF k > Len(pattern.indicators) THEN << >>
    ELSE (IF Contains(code_lower, Lower(pattern.indicators[k])) /\ ~pattern.quantum_safe
          THEN << QuantumFinding(pattern) >>
          ELSE << >>)
         \o QuantumIndicatorLoop(code_lower, pattern, k + 1)

RECURSIVE QuantumPatternLoop(_, _, _)
QuantumPatternLoop(code_lower, qpatterns, p) ==
    IF p > Len(qpatterns) THEN << >>
    ELSE QuantumIndicatorLoop(code_lower, qpatterns[p], 1)
         \o QuantumPatternLoop(code_lower, qpatterns, p + 1)

\* _assess_quantum_resistance
AssessQuantumResistance(qpatterns, code) ==
    QuantumPatternLoop(Lower(code), qpatterns, 1)

HistoricalSeverity == 10
HistoricalConfidence == D0_88

\* code.lower().replace("_", "").replace(" ", "")
NormalizeCode(code) == Remove(Remove(Lower(code), "_"), " ")

RECURSIVE HistoricalLoop(_, _, _)
HistoricalLoop(normalized, exploits, k) ==
    IF k > Len(exploits) THEN << >>
    ELSE (IF Contains(normalized, exploits[k].pattern_signature)
          THEN << [type |-> exploits[k].exploit_type,
                   severity |-> HistoricalSeverity,
                   description |-> "Code matches pattern from $" \o exploits[k].loss_amount
                                   \o " exploit on " \o exploits[k].date,
                   location |-> "Pattern match",
                   confidence |-> HistoricalConfidence,
                   recommendation |-> "This pattern caused major losses. Review immediately."] >>
          ELSE << >>)
         \o HistoricalLoop(normalized, exploits, k + 1)

\* _match_historical_exploits
MatchHistoricalExploits(exploits, code) ==
    HistoricalLoop(NormalizeCode(code), exploits, 1)

\* d[key] raises KeyError for some key of keys
KeyError(d, keys) == \E key \in keys : key \notin DOMAIN d

\* _assess_quantum_resistance raises: a subscript of a table entry that the
\* loops reach names a key the entry does not have
AssessQuantumResistanceRaises(qpatterns, code) ==
    \E p \in 1..Len(qpatterns) :
        \/ KeyError(qpatterns[p], {"indicators"})
        \/ \E k \in 1..Len(qpatterns[p].indicators) :
               /\ Contains(Lower(code), Lower(qpatterns[p].indicators[k]))
               /\ \/ KeyError(qpatterns[p], {"quantum_safe"})
                  \/ /\ ~qpatterns[p].quantum_safe
                     /\ KeyError(qpatterns[p], {"severity", "name", "recommendation"})

\* _match_historical_exploits raises, in the same way
MatchHistoricalExploitsRaises(exploits, code) ==
    \E k \in 1..Len(exploits) :
        \/ KeyError(exploits[k], {"pattern_signature"})
        \/ /\ Contains(NormalizeCode(code), exploits[k].pattern_signature)
           /\ KeyError(exploits[k], {"exploit_type", "loss_amount", "date"})

-----------------------------------------------------------------------------
(* Aggregation                                                             *)

RECURSIVE ScoreLoop(_, _)
\* the loop of _calculate_security_score: score -= severity * confidence
ScoreLoop(score, vulnerabilities) ==
    IF vulnerabilities = << >> THEN score
    ELSE LET vuln == Head(vulnerabilities)
             severity == Get(vuln, "severity", 5)
             confidence == Get(vuln, "confidence", D0_5)
             deduction == DoubleMul(severity, confidence)
         IN ScoreLoop(DoubleSub(score, deduction), Tail(vulnerabilities))

\* _calculate_security_score without the lower clamp max(0, ...)
CalculateSecurityScore_NoClamp(vulnerabilities) ==
    IF vulnerabilities = << >> THEN 100
    ELSE DoubleInt(ScoreLoop(Double(100, 0, 0), vulnerabilities))

\* _calculate_security_score
CalculateSecurityScore(vulnerabilities) ==
    IF vulnerabilities = << >> THEN 100
    ELSE Max(0, DoubleInt(ScoreLoop(Double(100, 0, 0), vulnerabilities)))

\* _determine_risk_level with the score thresholds tested before the critical
\* findings
DetermineRiskLevel_ScoreFirst(security_score, vulnerabilities) ==
    LET critical_vulns ==
            Cardinality({k \in 1..Len(vulnerabilities) :
                            Get(vulnerabilities[k], "severity", 0) >= 9})
    IN IF security_score < 30 THEN "CRITICAL"
       ELSE IF security_score < 50 THEN "HIGH"
       ELSE IF security_score < 70 THEN "MEDIUM"
       ELSE IF security_score < 85 THEN "LOW"
       ELSE IF critical_vulns > 0 THEN "CRITICAL"
       ELSE "MINIMAL"

\* _determine_risk_level
DetermineRiskLevel(security_score, vulnerabilities) ==
    LET critical_vulns ==
            Cardinality({k \in 1..Len(vulnerabilities) :
                            Get(vulnerabilities[k], "severity", 0) >= 9})
    IN IF critical_vulns > 0 \/ security_score < 30 THEN "CRITICAL"
       ELSE IF security_score < 50 THEN "HIGH"
       ELSE IF security_score < 70 THEN "MEDIUM"
       ELSE IF security_score < 85 THEN "LOW"
       ELSE "MINIMAL"

QuantumSafeIndicators ==
    << "dilithium", "sphincs", "kyber", "ntru",
       "quantum_resistant", "post_quantum",
       "sha3", "sha256" >>

QuantumVulnerableIndicators == << "ed25519", "secp256k1", "ecdsa", "rsa" >>

\* _is_quantum_resistant without code.lower()
IsQuantumResistant_CaseSensitive(code) ==
    LET has_safe == \E k \in 1..Len(QuantumSafeIndicators) :
                        Contains(code, QuantumSafeIndicators[k])
        has_vulnerable == \E k \in 1..Len(QuantumVulnerableIndicators) :
                              Contains(code, QuantumVulnerableIndicators[k])
    IN has_safe \/ ~has_vulnerable

\* _is_quantum_resistant
IsQuantumResistant(code) ==
    LET code_lower == Lower(code)
        has_safe == \E k \in 1..Len(QuantumSafeIndicators) :
                        Contains(code_lower, QuantumSafeIndicators[k])
        has_vulnerable == \E k \in 1..Len(QuantumVulnerableIndicators) :
                              Contains(code_lower, QuantumVulnerableIndicators[k])
    IN has_safe \/ ~has_vulnerable

\* the sort key of _generate_recommendations
SeverityKey(x) == Get(x, "severity", 0)

\* an insertion that puts v in front of the elements of equal key: the sort is
\* no longer stable
InsertBySeverity_Unstable(sorted, v) ==
    LET before == {k \in 1..Len(sorted) : SeverityKey(sorted[k]) <= SeverityKey(v)}
        at == IF before = {} THEN Len(sorted) + 1 ELSE SetMin(before)
    IN SubSeq(sorted, 1, at - 1) \o << v >> \o SubSeq(sorted, at, Len(sorted))

\* v put into a list sorted by descending key, behind the elements whose key
\* is not smaller
InsertBySeverity(sorted, v) ==
    LET before == {k \in 1..Len(sorted) : SeverityKey(sorted[k]) < SeverityKey(v)}
        at == IF before = {} THEN Len(sorted) + 1 ELSE SetMin(before)
    IN SubSeq(sorted, 1, at - 1) \o << v >> \o SubSeq(sorted, at, Len(sorted))

RECURSIVE SortedBySeverity(_)
\* sorted(vulnerabilities, key=severity, reverse=True): a stable sort
SortedBySeverity(vulnerabilities) ==
    IF vulnerabilities = << >> THEN << >>
    ELSE InsertBySeverity(
             SortedBySeverity(SubSeq(vulnerabilities, 1, Len(vulnerabilities) - 1)),
             vulnerabilities[Len(vulnerabilities)])

TopCount == 5

RECURSIVE UniqueRecommendations(_, _)
\* the loop of _generate_recommendations over sorted_vulns[:5]
UniqueRecommendations(top, seen) ==
    IF top = << >> THEN << >>
    ELSE LET vuln == Head(top)
             rec == Get(vuln, "recommendation", "")
         IN IF rec # "" /\ rec \notin seen
            THEN << "[" \o Upper(Get(vuln, "type", "unknown")) \o "] " \o rec >>
                 \o UniqueRecommendations(Tail(top), seen \cup {rec})
            ELSE UniqueRecommendations(Tail(top), seen)

AuditRecommendation ==
    "Consider professional audit from Oak Security, Zellic, or Quantstamp"
QuantumRecommendation ==
    "Implement quantum-resistant cryptography for future-proofing"

\* f"Address {n} additional findings in full report"
AdditionalLine(n) == "Address " \o ToString(n) \o " additional findings in full report"

\* _generate_recommendations returning nothing for a clean scan
GenerateRecommendations_EarlyReturn(vulnerabilities) ==
    IF vulnerabilities = << >> THEN << >>
    ELSE LET sorted_vulns == SortedBySeverity(vulnerabilities)
             top == SubSeq(sorted_vulns, 1, Min(TopCount, Len(sorted_vulns)))
             unique == UniqueRecommendations(top, {})
             additional == IF Len(vulnerabilities) > TopCount
                           THEN << AdditionalLine(Len(vulnerabilities) - TopCount) >>
                           ELSE << >>
         IN unique \o additional \o << AuditRecommendation, QuantumRecommendation >>

\* _generate_recommendations without the test "rec not in seen"
GenerateRecommendations_NoDedup(vulnerabilities) ==
    LET sorted_vulns == SortedBySeverity(vulnerabilities)
        top == SubSeq(sorted_vulns, 1, Min(TopCount, Len(sorted_vulns)))
        every == [k \in 1..Len(top) |->
                     "[" \o Upper(Get(top[k], "type", "unknown")) \o "] "
                         \o Get(top[k], "recommendation", "")]
        additional == IF Len(vulnerabilities) > TopCount
                      THEN << AdditionalLine(Len(vulnerabilities) - TopCount) >>
                      ELSE << >>
    IN every \o additional \o << AuditRecommendation, QuantumRecommendation >>

\* _generate_recommendations with len(vulnerabilities) >= 5 in place of > 5
GenerateRecommendations_OffByOne(vulnerabilities) ==
    LET sorted_vulns == SortedBySeverity(vulnerabilities)
        top == SubSeq(sorted_vulns, 1, Min(TopCount, Len(sorted_vulns)))
        unique == UniqueRecommendations(top, {})
        additional == IF Len(vulnerabilities) >= TopCount
                      THEN << AdditionalLine(Len(vulnerabilities) - TopCount) >>
                      ELSE << >>
    IN unique \o additional \o << AuditRecommendation, QuantumRecommendation >>

\* _generate_recommendations with the two closing appends exchanged
GenerateRecommendations_Swapped(vulnerabilities) ==
    LET sorted_vulns == SortedBySeverity(vulnerabilities)
        top == SubSeq(sorted_vulns, 1, Min(TopCount, Len(sorted_vulns)))
        unique == UniqueRecommendations(top, {})
        additional == IF Len(vulnerabilities) > TopCount
                      THEN << AdditionalLine(Len(vulnerabilities) - TopCount) >>
                      ELSE << >>
    IN unique \o additional \o << QuantumRecommendation, AuditRecommendation >>

\* _generate_recommendations
GenerateRecommendations(vulnerabilities) ==
    LET sorted_vulns == SortedBySeverity(vulnerabilities)
        top == SubSeq(sorted_vulns, 1, Min(TopCount, Len(sorted_vulns)))
        unique == UniqueRecommendations(top, {})
        additional == IF Len(vulnerabilities) > TopCount
                      THEN << AdditionalLine(Len(vulnerabilities) - TopCount) >>
                      ELSE << >>
    IN unique \o additional \o << AuditRecommendation, QuantumRecommendation >>

-----------------------------------------------------------------------------
(* analyze_program                                                         *)

RECURSIVE PatternLoop(_, _, _)
\* the loop of analyze_program over self.patterns
PatternLoop(pats, code, k) ==
    IF k > Len(pats) THEN << >>
    ELSE DetectPattern(code, pats[k]) \o PatternLoop(pats, code, k + 1)

\* analyze_program asking the quantum assessor before the pattern loop
CollectVulnerabilities_QuantumFirst(pats, exploits, qpatterns, program_code) ==
    AssessQuantumResistance(qpatterns, program_code)
    \o PatternLoop(pats, program_code, 1)
    \o MlAnomalyDetection(program_code)
    \o MatchHistoricalExploits(exploits, program_code)

\* the finding list that analyze_program collects from the four sources
CollectVulnerabilities(pats, exploits, qpatterns, program_code) ==
    PatternLoop(pats, program_code, 1)
    \o MlAnomalyDetection(program_code)
    \o AssessQuantumResistance(qpatterns, program_code)
    \o MatchHistoricalExploits(exploits, program_code)

\* analyze_program; timestamp is what _get_timestamp returns
AnalyzeProgram(pats, exploits, qpatterns, program_code, program_address, timestamp) ==
    LET vulnerabilities == CollectVulnerabilities(pats, exploits, qpatterns, program_code)
        security_score == CalculateSecurityScore(vulnerabilities)
    IN [program_address |-> program_address,
        vulnerabilities |-> vulnerabilities,
        security_score |-> security_score,
        risk_level |-> DetermineRiskLevel(security_score, vulnerabilities),
        recommendations |-> GenerateRecommendations(vulnerabilities),
        quantum_resistant |-> IsQuantumResistant(program_code),
        timestamp |-> timestamp]

-----------------------------------------------------------------------------
(* The inputs of the model                                                 *)

\* a block of MaxRep lines, each of which transfers inside an unsafe block
UnsafeTransferBlock == Rep("unsafe{transfer(a)}\n", MaxRep)

Pieces ==
    { "invoke(&ix, &[vault])?;\n",
      "vault.balance -= amount;\n",
      "state = amount;\n",
      "unsafe { x.unwrap() }\n",
      "require!(auth.is_signer);\n",
      "let k = ed25519::sign(m);\n",
      UnsafeTransferBlock }

RECURSIVE Texts(_, _)
\* the texts made of at most k of the given pieces
Texts(pieces, k) ==
    IF k = 0 THEN {""}
    ELSE LET shorter == Texts(pieces, k - 1)
         IN shorter \cup {t \o p : t \in shorter, p \in pieces}

Sources == Texts(Pieces, MaxPieces)

Addresses == {"SoLGuaRD11111111111111111111111111111111111", ""}

\* the values _get_timestamp may return
Clock == 1..MaxTime

Pending == [status |-> "pending"]
Returned(value) == [status |-> "returned", value |-> value]
Raised(exception) == [status |-> "raised", exception |-> exception]

AnalyzeCalls ==
    {[fn |-> "analyze_program", program_code |-> c, program_address |-> a] :
        c \in Sources, a \in Addresses}

-----------------------------------------------------------------------------
(* The detector: construction and calls                                    *)

\* __init__
Construct ==
    /\ patterns = InitializePatterns
    /\ historical_exploits = LoadHistoricalData
    /\ quantum_patterns = InitializeQuantumPatterns

Init ==
    /\ Construct
    /\ call \in AnalyzeCalls
    /\ ret = Pending

\* what a call of analyze_program may return: _get_timestamp reads the clock
\* or the call leaves with the exception that a detection source raised
AnalyzeOutcomes(pats, exploits, qpatterns, program_code, program_address) ==
    IF \/ AssessQuantumResistanceRaises(qpatterns, program_code)
       \/ MatchHistoricalExploitsRaises(exploits, program_code)
    THEN {Raised("KeyError")}
    ELSE LET result == AnalyzeProgram(pats, exploits, qpatterns,
                                      program_code, program_address, 0)
         IN {Returned([result EXCEPT !.timestamp = now]) : now \in Clock}

\* analyze_program(program_code, program_address)
analyze_program ==
    /\ call.fn = "analyze_program"
    /\ ret.status = "pending"
    /\ ret' \in AnalyzeOutcomes(patterns, historical_exploits, quantum_patterns,
                               call.program_code, call.program_address)
    /\ UNCHANGED <<patterns, historical_exploits, quantum_patterns, call>>

Next == analyze_program

Spec == Init /\ [][Next]_vars

-----------------------------------------------------------------------------
(* Scans of short program texts: a guard, statements and a transfer        *)

Indent == "            "

GuardLine ==
    Indent \o "require!(ctx.accounts.authority.is_signer, ErrorCode::Unauthorized);\n"

CheckedLine ==
    Indent \o "vault.balance = vault.balance.checked_sub(amount).ok_or(ErrorCode::InsufficientFunds)?;\n"

CheckedUnwrapLine ==
    Indent \o "vault.balance = vault.balance.checked_sub(amount).unwrap();\n"

UncheckedLine == Indent \o "let result = balance + amount;\n"

KeyLine ==
    Indent \o "let admin = Pubkey::from_str(\"HN7cABqLq46Es1jh92dQQisAq662SmxELLLsHHe4YWrH\").unwrap();\n"

ScriptLine == "console.log('hello world');"

HashLine == Indent \o "let digest = SHA-256(data);\n"

SignLine == Indent \o "let sig = ed25519::sign(&digest);\n"

TransferLine == Indent \o "transfer(vault, amount)?;\n"

Guards == {"", GuardLine}
Statements ==
    {CheckedLine, CheckedUnwrapLine, UncheckedLine, KeyLine, ScriptLine, HashLine, SignLine}
Transfers == {"", TransferLine}

\* a guard or none, at most MaxStatements statements, a transfer or none
Snippets ==
    {g \o body \o t : g \in Guards, body \in Texts(Statements, MaxStatements),
                      t \in Transfers}

ScanCalls ==
    {[fn |-> "analyze_program", program_code |-> c, program_address |-> a] :
        c \in Snippets, a \in Addresses}

InitScan ==
    /\ Construct
    /\ call \in ScanCalls
    /\ ret = Pending

SpecScan == InitScan /\ [][Next]_vars

-----------------------------------------------------------------------------
(* The aggregation functions on finding lists of their own                 *)

Finding(type, severity, confidence, recommendation) ==
    [type |-> type, severity |-> severity, description |-> "",
     location |-> "", confidence |-> confidence, recommendation |-> recommendation]

\* findings as the detection sources make them: catalog matches, quantum
\* table entries and historical matches
FindingUniverse ==
    { Finding("missing_signer_check", 9, D0_85, InitializePatterns[1].recommendation),
      Finding("integer_overflow", 8, D0_95, InitializePatterns[2].recommendation),
      Finding("reentrancy", 10, D0_95, InitializePatterns[4].recommendation),
      Finding("quantum_vulnerable", 6, D0_9_Below, InitializePatterns[5].recommendation),
      Finding("quantum_vulnerable", 6, QuantumConfidence,
              InitializeQuantumPatterns[1].recommendation),
      Finding("reentrancy", HistoricalSeverity, HistoricalConfidence,
              "This pattern caused major losses. Review immediately."),
      Finding("unauthorized_access", HistoricalSeverity, HistoricalConfidence,
              "This pattern caused major losses. Review immediately.") }

\* v repeated k times
Run(v, k) == [i \in 1..k |-> v]

Runs == {Run(v, k) : v \in FindingUniverse, k \in {1, MaxRun}}

RECURSIVE RunLists(_)
\* the finding lists made of at most k runs
RunLists(k) ==
    IF k = 0 THEN {<< >>}
    ELSE LET shorter == RunLists(k - 1)
         IN shorter \cup {l \o r : l \in shorter, r \in Runs}

FindingLists == RunLists(MaxRuns)

ScoreCalls ==
    {[fn |-> "_calculate_security_score", vulnerabilities |-> v] : v \in FindingLists}

RiskCalls ==
    {[fn |-> "_determine_risk_level", security_score |-> sc, vulnerabilities |-> v] :
        sc \in 0..100, v \in RunLists(1)}

RecommendationCalls ==
    {[fn |-> "_generate_recommendations", vulnerabilities |-> v] : v \in FindingLists}

InitAgg ==
    /\ Construct
    /\ call \in ScoreCalls \cup RiskCalls \cup RecommendationCalls
    /\ ret = Pending

\* _calculate_security_score(vulnerabilities)
calculate_security_score ==
    /\ call.fn = "_calculate_security_score"
    /\ ret.status = "pending"
    /\ ret' = Returned(CalculateSecurityScore(call.vulnerabilities))
    /\ UNCHANGED <<patterns, historical_exploits, quantum_patterns, call>>

\* _determine_risk_level(security_score, vulnerabilities)
determine_risk_level ==
    /\ call.fn = "_determine_risk_level"
    /\ ret.status = "pending"
    /\ ret' = Returned(DetermineRiskLevel(call.security_score, call.vulnerabilities))
    /\ UNCHANGED <<patterns, historical_exploits, quantum_patterns, call>>

\* _generate_recommendations(vulnerabilities)
generate_recommendations ==
    /\ call.fn = "_generate_recommendations"
    /\ ret.status = "pending"
    /\ ret' = Returned(GenerateRecommendations(call.vulnerabilities))
    /\ UNCHANGED <<patterns, historical_exploits, quantum_patterns, call>>

NextAgg ==
    \/ calculate_security_score
    \/ determine_risk_level
    \/ generate_recommendations

SpecAgg == InitAgg /\ [][NextAgg]_vars

-----------------------------------------------------------------------------
(* The detection sources on texts of their own                             *)

Words ==
    { "ed25519 ", "ECDSA ", "Rsa ", "AES-128 ", "SHA-256 ", "sha3 ", "Dilithium ",
      "external_call_before_state_update ", "External Call Before State Update ",
      "missing authority check ", "unsafe ", "require! " }

WordTexts == Texts(Words, MaxWords)

DetectFunctions ==
    { "_is_quantum_resistant", "_assess_quantum_resistance",
      "_match_historical_exploits", "_ml_anomaly_detection",
      "_extract_features", "_compute_anomaly_score" }

DetectCalls == {[fn |-> f, code |-> c] : f \in DetectFunctions, c \in WordTexts}

InitDetect ==
    /\ Construct
    /\ call \in DetectCalls
    /\ ret = Pending

\* _is_quantum_resistant(code)
is_quantum_resistant ==
    /\ call.fn = "_is_quantum_resistant"
    /\ ret.status = "pending"
    /\ ret' = Returned(IsQuantumResistant(call.code))
    /\ UNCHANGED <<patterns, historical_exploits, quantum_patterns, call>>

\* _assess_quantum_resistance(code)
assess_quantum_resistance ==
    /\ call.fn = "_assess_quantum_resistance"
    /\ ret.status = "pending"
    /\ ret' = IF AssessQuantumResistanceRaises(quantum_patterns, call.code)
              THEN Raised("KeyError")
              ELSE Returned(AssessQuantumResistance(quantum_patterns, call.code))
    /\ UNCHANGED <<patterns, historical_exploits, quantum_patterns, call>>

\* _match_historical_exploits(code)
match_historical_exploits ==
    /\ call.fn = "_match_historical_exploits"
    /\ ret.status = "pending"
    /\ ret' = IF MatchHistoricalExploitsRaises(historical_exploits, call.code)
              THEN Raised("KeyError")
              ELSE Returned(MatchHistoricalExploits(historical_exploits, call.code))
    /\ UNCHANGED <<patterns, historical_exploits, quantum_patterns, call>>

\* _ml_anomaly_detection(code)
ml_anomaly_detection ==
    /\ call.fn = "_ml_anomaly_detection"
    /\ ret.status = "pending"
    /\ ret' = Returned(MlAnomalyDetection(call.code))
    /\ UNCHANGED <<patterns, historical_exploits, quantum_patterns, call>>

\* _extract_features(code)
extract_features ==
    /\ call.fn = "_extract_features"
    /\ ret.status = "pending"
    /\ ret' = Returned(ExtractFeatures(call.code))
    /\ UNCHANGED <<patterns, historical_exploits, quantum_patterns, call>>

\* _compute_anomaly_score(features) on the features of the code, as
\* _ml_anomaly_detection calls it
compute_anomaly_score ==
    /\ call.fn = "_compute_anomaly_score"
    /\ ret.status = "pending"
    /\ ret' = Returned(ComputeAnomalyScore(ExtractFeatures(call.code)))
    /\ UNCHANGED <<patterns, historical_exploits, quantum_patterns, call>>

NextDetect ==
    \/ is_quantum_resistant
    \/ assess_quantum_resistance
    \/ match_historical_exploits
    \/ ml_anomaly_detection
    \/ extract_features
    \/ compute_anomaly_score

SpecDetect == InitDetect /\ [][NextDetect]_vars

-----------------------------------------------------------------------------
(* analyze_program on texts that several detection sources report          *)

OrderPieces ==
    { "unsafe { transfer(a).unwrap() }\n",
      "unsafe { a.checked_add(b).unwrap() }\n",
      "let k = ed25519::sign(m);\n",
      "AES-128\n",
      "require!(ok);\n",
      "unsafe" }

OrderCalls ==
    {[fn |-> "analyze_program", program_code |-> c, program_address |-> ""] :
        c \in Texts(OrderPieces, MaxPieces)}

InitOrder ==
    /\ Construct
    /\ call \in OrderCalls
    /\ ret = Pending

SpecOrder == InitOrder /\ [][Next]_vars

-----------------------------------------------------------------------------
(* GlobalEconomicOracle._assess_global_risk; scores are in Unit            *)

GeopoliticalThreshold == 600000
MonetaryPolicyThreshold == 500000
SystemicThreshold == 700000
LiquidityThreshold == 600000

\* _liquidity_risk_model
LiquidityRiskModel ==
    LET spread_score == 300000
        volume_score == 700000
        depth_score == 600000
    IN Unit - (spread_score * 4 + volume_score * 4 + depth_score * 2) \div 10

\* _systemic_risk_model, to the millionth (the doubles give 0.44999999999999996)
SystemicRiskModel ==
    LET interconnectedness == 600000
        leverage_ratio == 400000
        contagion_risk == 300000
    IN (interconnectedness * 4 + leverage_ratio * 3 + contagion_risk * 3) \div 10

\* _stress_test_model: the scenarios by name
StressTestModel ==
    << "Global Recession", "Inflation Spike", "Geopolitical Crisis", "Crypto Black Swan" >>

RiskFactor(type, severity, description, impact_sectors) ==
    [type |-> type, severity |-> severity, description |-> description,
     impact_sectors |-> impact_sectors]

\* the key of max() in _assess_global_risk
SeverityRank(severity) ==
    CASE severity = "low" -> 1
      [] severity = "moderate" -> 2
      [] severity = "elevated" -> 3
      [] severity = "high" -> 4
      [] severity = "critical" -> 5
      [] OTHER -> 0

RECURSIVE MaxSeverity(_)
\* max(severities, key=rank) of a non-empty list: the first of the largest
MaxSeverity(severities) ==
    IF Len(severities) = 1 THEN severities[1]
    ELSE LET rest == MaxSeverity(Tail(severities))
         IN IF SeverityRank(severities[1]) >= SeverityRank(rest)
            THEN severities[1] ELSE rest

\* risk_level_map.get(max_severity, RiskLevel.MODERATE)
RiskLevelMap(severity) ==
    CASE severity = "low" -> "LOW"
      [] severity = "moderate" -> "MODERATE"
      [] severity = "elevated" -> "ELEVATED"
      [] severity = "high" -> "HIGH"
      [] severity = "critical" -> "CRITICAL"
      [] OTHER -> "MODERATE"

\* the risk factors that _assess_global_risk collects
RiskFactors(geopolitical_score, monetary_policy_score, systemic_score, liquidity_score) ==
    (IF geopolitical_score > GeopoliticalThreshold
     THEN << RiskFactor("geopolitical", "high",
                        "Elevated geopolitical tensions affecting markets",
                        <<"commodities", "currencies", "crypto">>) >>
     ELSE << >>)
    \o (IF monetary_policy_score > MonetaryPolicyThreshold
        THEN << RiskFactor("monetary_policy", "moderate",
                           "Central bank policy uncertainty",
                           <<"bonds", "equities", "currencies">>) >>
        ELSE << >>)
    \o (IF systemic_score > SystemicThreshold
        THEN << RiskFactor("systemic", "critical",
                           "High systemic risk - potential cascade effects",
                           <<"all">>) >>
        ELSE << >>)
    \o (IF liquidity_score > LiquidityThreshold
        THEN << RiskFactor("liquidity", "elevated", "Market liquidity concerns",
                           <<"crypto", "derivatives">>) >>
        ELSE << >>)

\* _assess_global_risk, given what the random models return during the call;
\* max() of an empty list raises ValueError
AssessGlobalRisk(var_95, cvar_95, geopolitical_score, monetary_policy_score) ==
    LET systemic_score == SystemicRiskModel
        liquidity_score == LiquidityRiskModel
        risk_factors == RiskFactors(geopolitical_score, monetary_policy_score,
                                    systemic_score, liquidity_score)
    IN IF risk_factors = << >>
       THEN Raised("ValueError")
       ELSE LET max_severity ==
                    MaxSeverity([k \in 1..Len(risk_factors) |-> risk_factors[k].severity])
            IN Returned([overall_risk_level |-> RiskLevelMap(max_severity),
                         risk_factors |-> risk_factors,
                         var_95 |-> var_95,
                         cvar_95 |-> cvar_95,
                         stress_scenarios |-> StressTestModel,
                         systemic_risk_score |-> systemic_score])

\* np.random.uniform(0.3, 0.7) and np.random.uniform(0.4, 0.6), on a grid
GeopoliticalDraws == {300000 + k * (400000 \div MaxDraws) : k \in 0..MaxDraws}
MonetaryPolicyDraws == {400000 + k * (200000 \div MaxDraws) : k \in 0..MaxDraws}

\* two of the percentages that the simulated returns may give as VaR and CVaR
VarDraws == {3, 4}

OracleCalls ==
    {[fn |-> "_assess_global_risk", var_95 |-> v, cvar_95 |-> c,
      geopolitical_score |-> g, monetary_policy_score |-> m] :
        v \in VarDraws, c \in VarDraws, g \in GeopoliticalDraws,
        m \in MonetaryPolicyDraws}

\* the detector of the module is constructed besides the oracle and not used
InitOracle ==
    /\ Construct
    /\ call \in OracleCalls
    /\ ret = Pending

\* _assess_global_risk()
assess_global_risk ==
    /\ call.fn = "_assess_global_risk"
    /\ ret.status = "pending"
    /\ ret' = AssessGlobalRisk(call.var_95, call.cvar_95, call.geopolitical_score,
                               call.monetary_policy_score)
    /\ UNCHANGED <<patterns, historical_exploits, quantum_patterns, call>>

NextOracle == assess_global_risk

SpecOracle == InitOracle /\ [][NextOracle]_vars

-----------------------------------------------------------------------------
(* The threshold and the finding of _ml_anomaly_detection over the range   *)
(* [0, 1] that _compute_anomaly_score is written to return                 *)

AnomalyScores ==
    {k * (Unit \div MaxScores) : k \in 0..MaxScores} \cup {AnomalyThreshold + 1}

AnomalyCalls ==
    {[fn |-> "_ml_anomaly_detection", anomaly_score |-> v] : v \in AnomalyScores}

InitFinding ==
    /\ Construct
    /\ call \in AnomalyCalls
    /\ ret = Pending

\* the lines of _ml_anomaly_detection after the call of _compute_anomaly_score
anomaly_findings ==
    /\ call.fn = "_ml_anomaly_detection"
    /\ ret.status = "pending"
    /\ ret' = Returned(AnomalyFindings(call.anomaly_score))
    /\ UNCHANGED <<patterns, historical_exploits, quantum_patterns, call>>

NextFinding == anomaly_findings

SpecFinding == InitFinding /\ [][NextFinding]_vars

-----------------------------------------------------------------------------
(* One pattern of the catalog on texts with risk markers around a match    *)

MarkerWords == {"unsafe ", "x.unwrap() ", "require!(ok) "}

\* a line of ContextRadius characters, which moves what is before it out of
\* the window of what is after it
Padding == Rep("/", ContextRadius) \o "\n"

Gaps == {"", "\n", Padding}

Targets ==
    { "transfer(a);\n", "a.checked_add(b);\n", "v: Account<'info, Vault>,\n",
      "invoke(x);\nstate = 1;\n", "ed25519;\n" }

Tails == {"", "x.unwrap() ", "unsafe x.unwrap() "}

MarkedTexts ==
    {m \o g \o target \o tail :
        m \in Texts(MarkerWords, MaxMarkers), g \in Gaps, target \in Targets,
        tail \in Tails}

PatternCalls ==
    {[fn |-> "_detect_pattern", code |-> c, pattern |-> InitializePatterns[k]] :
        c \in MarkedTexts, k \in 1..Len(InitializePatterns)}

InitMatch ==
    /\ Construct
    /\ call \in PatternCalls
    /\ ret = Pending

\* _detect_pattern(code, pattern)
detect_pattern ==
    /\ call.fn = "_detect_pattern"
    /\ ret.status = "pending"
    /\ ret' = Returned(DetectPattern(call.code, call.pattern))
    /\ UNCHANGED <<patterns, historical_exploits, quantum_patterns, call>>

NextMatch == detect_pattern

SpecMatch == InitMatch /\ [][NextMatch]_vars

-----------------------------------------------------------------------------
(* Calls of analyze_program in flight together on one detector.  call[t]   *)
(* and ret[t] belong to the call t; ret[t].status is the statement the     *)
(* call is at, ret[t].vulnerabilities its local list.                      *)

Callers == 1..MaxCalls

SharedSources ==
    { "", "let k = ed25519::sign(m);\n", "unsafe { transfer(a).unwrap() }\n" }

SharedCalls ==
    {[fn |-> "analyze_program", program_code |-> c, program_address |-> ""] :
        c \in SharedSources}

InitShared ==
    /\ Construct
    /\ call \in [Callers -> SharedCalls]
    /\ ret = [t \in Callers |-> Pending]

\* the call t is at the statement pc and moves on to what next says
At(t, pc) == ret[t].status = pc
Goto(t, next) == ret' = [ret EXCEPT ![t] = next]
Extended(t, pc, found) ==
    [status |-> pc, k |-> 1, vulnerabilities |-> ret[t].vulnerabilities \o found]

\* vulnerabilities = []
enter_analyze(t) ==
    /\ At(t, "pending")
    /\ Goto(t, [status |-> "patterns", k |-> 1, vulnerabilities |-> << >>])
    /\ UNCHANGED <<patterns, historical_exploits, quantum_patterns, call>>

\* one turn of the loop over self.patterns, or its end
detect_patterns(t) ==
    /\ At(t, "patterns")
    /\ IF ret[t].k <= Len(patterns)
       THEN Goto(t, [ret[t] EXCEPT
                !.k = @ + 1,
                !.vulnerabilities = @ \o DetectPattern(call[t].program_code,
                                                      patterns[ret[t].k])])
       ELSE Goto(t, Extended(t, "anomaly", << >>))
    /\ UNCHANGED <<patterns, historical_exploits, quantum_patterns, call>>

\* ml_findings = self._ml_anomaly_detection(program_code)
detect_anomaly(t) ==
    /\ At(t, "anomaly")
    /\ Goto(t, Extended(t, "quantum", MlAnomalyDetection(call[t].program_code)))
    /\ UNCHANGED <<patterns, historical_exploits, quantum_patterns, call>>

\* _assess_quantum_resistance taking the entries off self.quantum_patterns as
\* it goes through them
assess_quantum_Draining(t) ==
    /\ At(t, "quantum")
    /\ IF AssessQuantumResistanceRaises(quantum_patterns, call[t].program_code)
       THEN Goto(t, Raised("KeyError"))
       ELSE Goto(t, Extended(t, "historical",
                    AssessQuantumResistance(quantum_patterns, call[t].program_code)))
    /\ quantum_patterns' = << >>
    /\ UNCHANGED <<patterns, historical_exploits, call>>

\* quantum_vulns = self._assess_quantum_resistance(program_code)
assess_quantum(t) ==
    /\ At(t, "quantum")
    /\ IF AssessQuantumResistanceRaises(quantum_patterns, call[t].program_code)
       THEN Goto(t, Raised("KeyError"))
       ELSE Goto(t, Extended(t, "historical",
                    AssessQuantumResistance(quantum_patterns, call[t].program_code)))
    /\ UNCHANGED <<patterns, historical_exploits, quantum_patterns, call>>

\* historical_matches = self._match_historical_exploits(program_code)
match_historical(t) ==
    /\ At(t, "historical")
    /\ IF MatchHistoricalExploitsRaises(historical_exploits, call[t].program_code)
       THEN Goto(t, Raised("KeyError"))
       ELSE Goto(t, Extended(t, "aggregate",
                    MatchHistoricalExploits(historical_exploits, call[t].program_code)))
    /\ UNCHANGED <<patterns, historical_exploits, quantum_patterns, call>>

\* the score, the risk level, the quantum verdict, the recommendations and the
\* DetectionResult that is returned
aggregate_and_return(t) ==
    /\ At(t, "aggregate")
    /\ \E now \in Clock :
           LET vulnerabilities == ret[t].vulnerabilities
               security_score == CalculateSecurityScore(vulnerabilities)
           IN Goto(t, Returned(
                  [program_address |-> call[t].program_address,
                   vulnerabilities |-> vulnerabilities,
                   security_score |-> security_score,
                   risk_level |-> DetermineRiskLevel(security_score, vulnerabilities),
                   recommendations |-> GenerateRecommendations(vulnerabilities),
                   quantum_resistant |-> IsQuantumResistant(call[t].program_code),
                   timestamp |-> now]))
    /\ UNCHANGED <<patterns, historical_exploits, quantum_patterns, call>>

NextShared ==
    \E t \in Callers :
        \/ enter_analyze(t)
        \/ detect_patterns(t)
        \/ detect_anomaly(t)
        \/ assess_quantum(t)
        \/ match_historical(t)
        \/ aggregate_and_return(t)

SpecShared == InitShared /\ [][NextShared]_vars

-----------------------------------------------------------------------------
(* Properties                                                              *)

ReturnedFrom(fn) == call.fn = fn /\ ret.status = "returned"

\* C1: for every source text and identifier, the security_score of the result
\* that analyze_program returns is an integer from 0 to 100.
C1_ScoreInRange ==
    ReturnedFrom("analyze_program") => ret.value.security_score \in 0..100

\* a scan whose deductions exceed 100, so that the score is held at 0
C1_Witness ==
    /\ ReturnedFrom("analyze_program")
    /\ ret.value.security_score = 0
    /\ ScoreLoop(Double(100, 0, 0), ret.value.vulnerabilities).neg

\* C2: the risk level is CRITICAL if a finding has severity >= 9 or the score is
\* below 30; otherwise HIGH below 50, MEDIUM below 70, LOW below 85 and MINIMAL
\* from 85 on; one finding of severity 9 gives CRITICAL whatever the score.
C2_RiskPriority ==
    ReturnedFrom("_determine_risk_level") =>
        LET v == call.vulnerabilities
            sc == call.security_score
            critical == \E k \in 1..Len(v) : v[k].severity >= 9
        IN /\ (critical \/ sc < 30) => ret.value = "CRITICAL"
           /\ (~critical /\ sc \in 30..49) => ret.value = "HIGH"
           /\ (~critical /\ sc \in 50..69) => ret.value = "MEDIUM"
           /\ (~critical /\ sc \in 70..84) => ret.value = "LOW"
           /\ (~critical /\ sc >= 85) => ret.value = "MINIMAL"

\* a single finding of severity 9 with a score that alone reads MINIMAL
C2_Witness ==
    /\ ReturnedFrom("_determine_risk_level")
    /\ Len(call.vulnerabilities) = 1
    /\ call.vulnerabilities[1].severity = 9
    /\ call.security_score >= 85
    /\ ret.value = "CRITICAL"

\* C3: analyze_program on the empty source returns no finding, the score 100
\* and the risk level MINIMAL.
C3_EmptySource ==
    (ReturnedFrom("analyze_program") /\ call.program_code = "") =>
        /\ ret.value.vulnerabilities = << >>
        /\ ret.value.security_score = 100
        /\ ret.value.risk_level = "MINIMAL"

C3_Witness ==
    /\ ReturnedFrom("analyze_program")
    /\ Len(call.program_code) = 0
    /\ Len(ret.value.vulnerabilities) = 0

RECURSIVE TotalDeduction(_, _)
\* the sum of severity x confidence over the first k findings of v, exactly
TotalDeduction(v, k) ==
    IF k = 0 THEN Double(0, 0, 0)
    ELSE MagAdd(TotalDeduction(v, k - 1), MagMul(v[k].severity, v[k].confidence))

\* C4: the security score of a finding list is 100 minus the sum of
\* severity x confidence over its findings, clamped to [0, 100] and truncated to
\* an integer; the empty list gives 100.
C4_ScoreFormula ==
    ReturnedFrom("_calculate_security_score") =>
        LET v == call.vulnerabilities
            total == TotalDeduction(v, Len(v))
            hundred == Double(100, 0, 0)
        IN /\ ret.value = IF MagLess(hundred, total) THEN 0
                          ELSE MagSub(hundred, total).i
           /\ (Len(v) = 0 => ret.value = 100)

\* C5: for the empty finding list the score is 100 and the recommendations are
\* exactly the two closing recommendations.
C5_EmptyAggregate ==
    (ret.status = "returned" /\ call.fn # "analyze_program"
        /\ Len(call.vulnerabilities) = 0) =>
        /\ call.fn = "_calculate_security_score" => ret.value = 100
        /\ call.fn = "_generate_recommendations" =>
               ret.value = << "Consider professional audit from Oak Security, Zellic, or Quantstamp",
                              "Implement quantum-resistant cryptography for future-proofing" >>

C5_Witness ==
    /\ ReturnedFrom("_generate_recommendations")
    /\ call.vulnerabilities = << >>
    /\ Len(ret.value) = 2

\* C6: the recommendations made of a finding list hold no two equal strings.
C6_NoDuplicates ==
    ReturnedFrom("_generate_recommendations") =>
        \A i, j \in 1..Len(ret.value) : i < j => ret.value[i] # ret.value[j]

\* two of the findings that are looked at carry the same recommendation text
C6_Witness ==
    /\ ReturnedFrom("_generate_recommendations")
    /\ LET v == call.vulnerabilities
       IN /\ Len(v) <= 5
          /\ \E i, j \in 1..Len(v) :
                 i < j /\ v[i].recommendation = v[j].recommendation

\* the finding j comes before the finding i when the list v is sorted by
\* severity descending with ties kept in list order
Outranks(v, j, i) ==
    \/ v[j].severity > v[i].severity
    \/ v[j].severity = v[i].severity /\ j < i

RankOf(v, i) == 1 + Cardinality({j \in 1..Len(v) : Outranks(v, j, i)})

AtRank(v, r) == v[CHOOSE i \in 1..Len(v) : RankOf(v, i) = r]

TaggedLine(f) == "[" \o Upper(f.type) \o "] " \o f.recommendation

\* the recommendations without the closing pair and the line on further findings
PerFindingPart(v, recs) ==
    SubSeq(recs, 1, Len(recs) - 2 - (IF Len(v) > 5 THEN 1 ELSE 0))

\* C7: the per-finding recommendations come from the first 5 findings of the
\* list sorted by severity descending, ties in detection order; each of these
\* gives, in that order, the line "[UPPERCASED CATEGORY] text" unless an earlier
\* one of them has the same text.
C7_TopFiveStable ==
    ReturnedFrom("_generate_recommendations") =>
        LET v == call.vulnerabilities
            m == IF Len(v) < 5 THEN Len(v) ELSE 5
            part == PerFindingPart(v, ret.value)
            kept == {r \in 1..m :
                        \A q \in 1..(r - 1) :
                            AtRank(v, q).recommendation # AtRank(v, r).recommendation}
        IN /\ Len(part) = Cardinality(kept)
           /\ \A r \in kept :
                  part[Cardinality({q \in kept : q <= r})] = TaggedLine(AtRank(v, r))

\* two findings of equal severity and different texts, of which the earlier
\* is among the first 5 and the later is not
C7_Witness ==
    /\ ReturnedFrom("_generate_recommendations")
    /\ LET v == call.vulnerabilities
       IN \E i, j \in 1..Len(v) :
              /\ i < j
              /\ v[i].severity = v[j].severity
              /\ v[i].recommendation # v[j].recommendation
              /\ RankOf(v, i) <= 5
              /\ RankOf(v, j) > 5

IsAdditionalLine(s) ==
    LET tail == " additional findings in full report"
    IN /\ StartsAt(s, 1, "Address ")
       /\ StartsAt(s, Len(s) - Len(tail) + 1, tail)

\* C8: the recommendations hold exactly one line on additional findings if and
\* only if there are more than 5 findings; it states the number of findings
\* minus 5 and stands behind the per-finding lines and before the closing pair.
C8_AdditionalLine ==
    ReturnedFrom("_generate_recommendations") =>
        LET n == Len(call.vulnerabilities)
            recs == ret.value
            extra == {k \in 1..Len(recs) : IsAdditionalLine(recs[k])}
        IN /\ n > 5 <=> Cardinality(extra) = 1
           /\ n <= 5 => extra = {}
           /\ n > 5 =>
                  /\ extra = {Len(recs) - 2}
                  /\ recs[Len(recs) - 2] =
                         "Address " \o ToString(n - 5) \o " additional findings in full report"
                  /\ \A k \in 1..(Len(recs) - 3) : StartsAt(recs[k], 1, "[")

C8_Witness ==
    /\ ReturnedFrom("_generate_recommendations")
    /\ Len(call.vulnerabilities) = 6
    /\ ret.value[Len(ret.value) - 2] = "Address 1 additional findings in full report"

\* C9: for every finding list the recommendations are not empty and end with
\* the professional-audit suggestion followed by the post-quantum suggestion.
C9_ClosingPair ==
    ReturnedFrom("_generate_recommendations") =>
        LET recs == ret.value
        IN /\ Len(recs) >= 2
           /\ recs[Len(recs) - 1] =
                  "Consider professional audit from Oak Security, Zellic, or Quantstamp"
           /\ recs[Len(recs)] =
                  "Implement quantum-resistant cryptography for future-proofing"

C9_Witness ==
    /\ ReturnedFrom("_generate_recommendations")
    /\ Len(call.vulnerabilities) > 0
    /\ Len(ret.value) >= 3

\* an external invocation followed on a later line by a mutation of a balance
InvokeThenBalanceMutation(code) ==
    LET low == Lower(code)
    IN \E i \in Occurrences(low, "invoke") :
           \E n \in Newlines(code) :
               /\ n > i
               /\ \E j \in Occurrences(low, ".balance") :
                      /\ j > n
                      /\ LET a == SkipClass(code, j + 8, {" "})
                         IN \/ StartsAt(code, a, "-=")
                            \/ StartsAt(code, a, "+=")
                            \/ StartsAt(code, a, "=") /\ ~StartsAt(code, a, "==")

\* C10: a scan of a snippet in which an external invocation is followed on a
\* later line by a mutation of a state balance gives at least one finding of
\* category "reentrancy".
C10_ReentrancyDetected ==
    (ReturnedFrom("analyze_program") /\ InvokeThenBalanceMutation(call.program_code)) =>
        \E k \in 1..Len(ret.value.vulnerabilities) :
            ret.value.vulnerabilities[k].type = "reentrancy"

\* the result holds a finding of critical severity
HasCriticalFinding(result) ==
    \E k \in 1..Len(result.vulnerabilities) : result.vulnerabilities[k].severity >= 9

\* the result holds a finding of one of the given categories
HasFindingOfType(result, types) ==
    \E k \in 1..Len(result.vulnerabilities) : result.vulnerabilities[k].type \in types

\* a transfer call with no require! guard anywhere before it
TransferWithoutGuard(code) ==
    \E i \in Occurrences(Lower(code), "transfer(") :
        \A j \in Occurrences(code, "require!") : j > i

\* C11: a scan of a snippet that makes a transfer call with no signer or guard
\* check before it gives at least one finding of severity 9 or more.
C11_MissingSignerCritical ==
    (ReturnedFrom("analyze_program") /\ TransferWithoutGuard(call.program_code)) =>
        HasCriticalFinding(ret.value)

\* guarded arithmetic (checked_sub, checked_add) after a require! guard, and a
\* transfer only after that state update
GuardedUpdateThenTransfer(code) ==
    LET checked == Occurrences(code, ".checked_sub(") \cup Occurrences(code, ".checked_add(")
        guards == Occurrences(code, "require!")
        transfers == Occurrences(Lower(code), "transfer")
    IN /\ checked # {} /\ guards # {} /\ transfers # {}
       /\ \A c \in checked : \E g \in guards : g < c
       /\ \A t \in transfers : \A c \in checked : c < t

\* C12: a scan of a snippet with guarded arithmetic, a guard check before it and
\* its transfer only after the state update gives no finding of severity 9 or
\* more.
C12_CleanCodeNoCritical ==
    (ReturnedFrom("analyze_program") /\ GuardedUpdateThenTransfer(call.program_code)) =>
        ~HasCriticalFinding(ret.value)

\* an addition on balances written without any checked_ call
UncheckedArithmetic(code) ==
    Contains(code, "balance + amount") /\ ~Contains(code, "checked_")

\* every arithmetic call of the text is a checked_ one
OnlyCheckedArithmetic(code) ==
    Contains(code, ".checked_") /\ ~Contains(code, " + ")

\* C13: a scan of a snippet with an unchecked arithmetic operation on balances
\* gives a finding of category "unchecked_arithmetic", and a snippet whose
\* arithmetic is all written with checked_add/sub/mul/div gets no arithmetic
\* finding.
C13_UncheckedArithmeticFlagged ==
    ReturnedFrom("analyze_program") =>
        /\ UncheckedArithmetic(call.program_code) =>
               HasFindingOfType(ret.value, {"unchecked_arithmetic"})
        /\ OnlyCheckedArithmetic(call.program_code) =>
               ~HasFindingOfType(ret.value, {"unchecked_arithmetic", "integer_overflow",
                                             "arithmetic_error"})

\* a base58 key literal handed to Pubkey::from_str
HardcodedKey(code) == Contains(code, "Pubkey::from_str(\"HN7c")

\* C14: a scan of a snippet that holds a hardcoded public-key literal gives a
\* finding of category "hardcoded_key".
C14_HardcodedKeyFlagged ==
    (ReturnedFrom("analyze_program") /\ HardcodedKey(call.program_code)) =>
        HasFindingOfType(ret.value, {"hardcoded_key"})

RiskLevels == {"CRITICAL", "HIGH", "MEDIUM", "LOW", "MINIMAL"}

\* C15: no scan is aborted: for every source text and identifier
\* analyze_program can return, never leaves with an exception, and what it
\* returns carries the identifier it was given, the findings, the score, the
\* risk level, the recommendations, the quantum verdict and the timestamp.
C15_NoAbort ==
    call.fn = "analyze_program" =>
        /\ ret.status # "raised"
        /\ ret.status = "pending" =>
               LET outcomes == AnalyzeOutcomes(patterns, historical_exploits,
                                               quantum_patterns, call.program_code,
                                               call.program_address)
               IN outcomes # {} /\ \A o \in outcomes : o.status = "returned"
        /\ ret.status = "returned" =>
               /\ DOMAIN ret.value = {"program_address", "vulnerabilities",
                                      "security_score", "risk_level", "recommendations",
                                      "quantum_resistant", "timestamp"}
               /\ ret.value.program_address = call.program_address
               /\ DOMAIN ret.value.vulnerabilities = 1..Len(ret.value.vulnerabilities)
               /\ ret.value.security_score \in Int
               /\ ret.value.risk_level \in RiskLevels
               /\ Len(ret.value.recommendations) >= 2
               /\ ret.value.quantum_resistant \in BOOLEAN
               /\ ret.value.timestamp \in Clock

\* a text that is not a program of the target language, scanned to a result
\* with no finding
C15_Witness ==
    /\ ReturnedFrom("analyze_program")
    /\ call.program_code = ScriptLine
    /\ call.program_address = ""
    /\ ret.value.vulnerabilities = << >>

\* the word occurs in the text, letter case aside
OccursIgnoringCase(code, word) ==
    \E i \in 1..(Len(code) - Len(word) + 1) :
        Lower(SubSeq(code, i, i + Len(word) - 1)) = Lower(word)

SafeIndicatorPresent(code) ==
    \E k \in 1..Len(QuantumSafeIndicators) :
        OccursIgnoringCase(code, QuantumSafeIndicators[k])

UnsafeIndicatorPresent(code) ==
    \E k \in 1..Len(QuantumVulnerableIndicators) :
        OccursIgnoringCase(code, QuantumVulnerableIndicators[k])

UnsafeOccurrences(qpatterns, code) ==
    {<<p, k>> \in (1..Len(qpatterns)) \X (1..4) :
        /\ k <= Len(qpatterns[p].indicators)
        /\ ~qpatterns[p].quantum_safe
        /\ OccursIgnoringCase(code, qpatterns[p].indicators[k])}

\* C17: _assess_quantum_resistance gives exactly one finding for each indicator
\* of the table that occurs in the source, letter case aside, and whose entry is
\* marked unsafe, with confidence 0.95 and the entry's severity and
\* recommendation, and no finding for any other indicator.
C17_QuantumFindings ==
    ReturnedFrom("_assess_quantum_resistance") =>
        LET hits == UnsafeOccurrences(quantum_patterns, call.code)
            of(p) == {f \in 1..Len(ret.value) :
                         /\ ret.value[f].severity = quantum_patterns[p].severity
                         /\ ret.value[f].recommendation = quantum_patterns[p].recommendation}
        IN /\ Len(ret.value) = Cardinality(hits)
           /\ \A f \in 1..Len(ret.value) :
                  /\ ret.value[f].confidence = D0_95
                  /\ ret.value[f].type = "quantum_vulnerable"
           /\ \A p \in 1..Len(quantum_patterns) :
                  Cardinality(of(p)) = Cardinality({h \in hits : h[1] = p})

\* an indicator of the unsafe signature entry beside one of the safe hash entry
C17_Witness ==
    /\ ReturnedFrom("_assess_quantum_resistance")
    /\ Contains(call.code, "Rsa") /\ Contains(call.code, "SHA-256")
    /\ Len(ret.value) = 1

\* the registry entries whose signature, lower-cased and with underscores and
\* spaces removed, is within the normalized source
SignaturesWithin(exploits, code) ==
    {k \in 1..Len(exploits) :
        Contains(NormalizeCode(code), NormalizeCode(exploits[k].pattern_signature))}

\* C18: _match_historical_exploits gives one finding of severity 10 and
\* confidence 0.88 for every registry entry whose normalized signature is within
\* the normalized source, so a source holding the words of a signature in any
\* letter case, with or without underscores and spaces, is matched.
C18_HistoricalMatch ==
    ReturnedFrom("_match_historical_exploits") =>
        LET hits == SignaturesWithin(historical_exploits, call.code)
        IN /\ Len(ret.value) = Cardinality(hits)
           /\ \A k \in hits :
                  \E f \in 1..Len(ret.value) :
                      /\ ret.value[f].type = historical_exploits[k].exploit_type
                      /\ ret.value[f].severity = 10
                      /\ ret.value[f].confidence = D0_88

\* C19: for a text with no guard check and at least one unsafe marker the
\* anomaly score is above 0.70 and _ml_anomaly_detection gives exactly one
\* anomaly finding.
C19_AnomalyOnUnsafe ==
    (/\ ReturnedFrom("_ml_anomaly_detection")
     /\ Count(call.code, "require!") = 0
     /\ Count(call.code, "unsafe") > 0) =>
        /\ ComputeAnomalyScore(ExtractFeatures(call.code)) > AnomalyThreshold
        /\ Len(ret.value) = 1
        /\ ret.value[1].type = "anomaly_detected"

\* C20: every finding of the result of analyze_program, whichever detection
\* source made it, has a severity from 1 to 10 and a confidence from 0 to 1.
C20_FindingRanges ==
    ReturnedFrom("analyze_program") =>
        \A k \in 1..Len(ret.value.vulnerabilities) :
            LET finding == ret.value.vulnerabilities[k]
            IN /\ finding.severity \in 1..10
               /\ ~finding.confidence.neg
               /\ ~MagLess(D1_0, finding.confidence)

\* a scan with a finding of the pattern catalog and one of the quantum table
C20_Witness ==
    /\ ReturnedFrom("analyze_program")
    /\ \E j, k \in 1..Len(ret.value.vulnerabilities) :
           /\ ret.value.vulnerabilities[j].location = "Cryptographic implementation"
           /\ ret.value.vulnerabilities[k].location = "Line 1"

\* what the call returns when it runs alone on a detector as constructed
AloneResult(c) ==
    AnalyzeProgram(InitializePatterns, LoadHistoricalData, InitializeQuantumPatterns,
                   c.program_code, c.program_address, 0)

\* C21: analyze_program is stateless and reentrant: no call changes the pattern
\* catalog, the quantum table or the exploit registry, and under every
\* interleaving of calls on one detector each call returns the findings, score,
\* risk level, recommendations and quantum verdict it returns when run alone;
\* only the timestamp may differ.
C21_Reentrant ==
    /\ patterns = InitializePatterns
    /\ historical_exploits = LoadHistoricalData
    /\ quantum_patterns = InitializeQuantumPatterns
    /\ \A t \in DOMAIN ret :
           /\ ret[t].status # "raised"
           /\ ret[t].status = "returned" =>
                  [ret[t].value EXCEPT !.timestamp = 0] = AloneResult(call[t])

\* two calls in flight at once on the same source: one has its quantum findings
\* and is about to aggregate, the other is about to consult the quantum table
C21_Witness ==
    \E t, u \in DOMAIN ret :
        /\ ret[t].status = "aggregate"
        /\ Len(ret[t].vulnerabilities) >= 2
        /\ ret[u].status = "quantum"
        /\ call[u].program_code = call[t].program_code

\* the text from 100 characters before the start of the match to 100 characters
\* after its end
Window(code, match) ==
    SubSeq(code, Max(1, match.start + 1 - 100), Min(Len(code), match.end + 100))

\* the confidence of a match in hundredths, in decimal arithmetic
DecimalConfidence(code, match) ==
    LET window == Window(code, match)
        sum == 70 + (IF Contains(window, "unsafe") THEN 10 ELSE 0)
                  + (IF Contains(window, "unwrap()") THEN 5 ELSE 0)
                  + (IF Contains(window, "require!") THEN 0 ELSE 10)
    IN Min(100, Max(0, sum))

\* the confidence_threshold of the catalog patterns in hundredths
ThresholdHundredths(pattern) ==
    CASE pattern.vuln_type = "missing_signer_check" -> 85
      [] pattern.vuln_type = "integer_overflow" -> 90
      [] pattern.vuln_type = "uninitialized_account" -> 80
      [] pattern.vuln_type = "reentrancy" -> 95
      [] pattern.vuln_type = "quantum_vulnerable" -> 75

\* the matches of the pattern of the call, by their index in match order
MatchesOfCall == FindIter(call.pattern.pattern, call.code)

\* C22: the confidence of a pattern match is 0.70, plus 0.10 if its window holds
\* "unsafe", plus 0.05 if it holds "unwrap()", plus 0.10 if it holds no
\* "require!", clamped to [0, 1], and a finding is made of the match exactly when
\* that confidence is at least the confidence_threshold of the pattern.
C22_ContextualConfidence ==
    ReturnedFrom("_detect_pattern") =>
        LET matches == MatchesOfCall
            emitted == {m \in 1..Len(matches) :
                           DecimalConfidence(call.code, matches[m])
                               >= ThresholdHundredths(call.pattern)}
        IN Len(ret.value) = Cardinality(emitted)

\* the window of the match holds both boosting markers and no guard
FullyBoosted(code, match) ==
    LET window == Window(code, match)
    IN /\ Contains(window, "unsafe")
       /\ Contains(window, "unwrap()")
       /\ ~Contains(window, "require!")

\* the window of the match holds a guard and no boosting marker
OnlyGuarded(code, match) ==
    LET window == Window(code, match)
    IN /\ Contains(window, "require!")
       /\ ~Contains(window, "unsafe")
       /\ ~Contains(window, "unwrap()")

\* C28: no pattern finding has a confidence above 0.95; a match of the
\* REENTRANCY pattern gives a finding exactly when its window holds "unsafe" and
\* "unwrap()" and no "require!"; and a match of any pattern whose window holds
\* "require!" and neither "unsafe" nor "unwrap()" gives no finding.
C28_ConfidenceCeiling ==
    ReturnedFrom("_detect_pattern") =>
        LET matches == MatchesOfCall
            indices == 1..Len(matches)
        IN /\ \A f \in 1..Len(ret.value) : ~MagLess(D0_95, ret.value[f].confidence)
           /\ call.pattern.vuln_type = "reentrancy" =>
                  Len(ret.value) =
                      Cardinality({m \in indices : FullyBoosted(call.code, matches[m])})
           /\ Len(ret.value) <=
                  Cardinality({m \in indices : ~OnlyGuarded(call.code, matches[m])})

\* a REENTRANCY match that is reported, with a guard in the text but more than
\* 100 characters before the match
C28_Witness ==
    /\ ReturnedFrom("_detect_pattern")
    /\ call.pattern.vuln_type = "reentrancy"
    /\ Contains(call.code, "require!")
    /\ Len(ret.value) = 1
    /\ ret.value[1].confidence = D0_95

\* the integer part of n * Unit / d, for 0 <= n and 0 < d
Millionths(n, d) ==
    LET thousandths == ((n % d) * 1000) \div d
        rest == ((n % d) * 1000) % d
    IN (n \div d) * Unit + thousandths * 1000 + (rest * 1000) \div d

\* (|checks/largest - 0.10| + 5 x |unsafe/largest - 0.01|) / 2 in Unit, the
\* ratios being 0 when the largest element is 0
DeviationScore(checks, unsafe, largest) ==
    IF largest = 0
    THEN Millionths(3, 40)
    ELSE Millionths(2 * Abs(10 * checks - largest) + Abs(100 * unsafe - largest),
                    40 * largest)

\* the feature vector before it is normalized
RawFeatures(code) ==
    << Len(code), Count(code, "\n"), Count(code, "fn "), Count(code, "require!"),
       Count(code, "invoke"), Count(code, "Transfer"), Count(code, "mut "),
       Count(code, "unsafe") >>

\* C23: the anomaly score of a source is (|checks_ratio - 0.10| + 5 x
\* |unsafe_ratio - 0.01|) / 2 capped at 1.0, the two ratios being the count of
\* "require!" and the count of "unsafe" divided by the largest element of the
\* feature vector (0 for the all-zero vector); the score lies in [0, 1].  The
\* score is compared to within two millionths.
C23_AnomalyScore ==
    /\ ReturnedFrom("_extract_features") =>
           LET raw == RawFeatures(call.code)
               largest == SetMax({raw[k] : k \in 1..8})
           IN /\ largest = 0 => ret.value[4] = 0 /\ ret.value[8] = 0
              /\ largest > 0 => /\ ret.value[4] = Millionths(raw[4], largest)
                                /\ ret.value[8] = Millionths(raw[8], largest)
    /\ ReturnedFrom("_compute_anomaly_score") =>
           LET raw == RawFeatures(call.code)
               largest == SetMax({raw[k] : k \in 1..8})
               expected == Min(DeviationScore(raw[4], raw[8], largest), Unit)
           IN /\ Abs(ret.value - expected) <= 2
              /\ 0 <= ret.value
              /\ ret.value <= Unit

\* the score of a text with both a guard check and an unsafe block
C23_Witness ==
    /\ ReturnedFrom("_compute_anomaly_score")
    /\ Count(call.code, "require!") > 0
    /\ Count(call.code, "unsafe") > 0
    /\ ret.value > 0

\* the integers nearest to v / Unit (both neighbours when v is halfway)
NearestIntegers(v) == {(v + Unit \div 2) \div Unit, (v + Unit \div 2 - 1) \div Unit}

\* the finding list is empty for a score of at most 0.70 and else holds one
\* anomaly finding whose confidence is the score and whose severity is among
\* the given ones
AnomalyRule(findings, anomaly_score, severities) ==
    IF anomaly_score > AnomalyThreshold
    THEN /\ Len(findings) = 1
         /\ findings[1].type \in {"anomaly", "anomaly_detected"}
         /\ findings[1].severity \in severities
         /\ findings[1].confidence = FromUnit(anomaly_score)
    ELSE findings = << >>

SourceRank(finding) ==
    CASE finding.location = "Multiple locations" -> 2
      [] finding.location = "Cryptographic implementation" -> 3
      [] finding.location = "Pattern match" -> 4
      [] OTHER -> 1

\* the findings of v that the detection source of the given rank made
FromSource(v, rank) == SelectSeq(v, LAMBDA f : SourceRank(f) = rank)

\* the place in the catalog of the pattern that made a pattern-match finding
CatalogIndex(finding) ==
    CHOOSE k \in 1..Len(patterns) : patterns[k].vuln_type = finding.type

\* C25: the findings of a result are the pattern-match findings (in catalog
\* order, and in match order within one pattern), then the anomaly findings,
\* then the quantum findings, then the historical findings: no finding of a
\* later source stands before a finding of an earlier one.
C25_FindingOrder ==
    ReturnedFrom("analyze_program") =>
        LET v == ret.value.vulnerabilities
            code == call.program_code
            matched == FromSource(v, 1)
        IN /\ \A i, j \in 1..Len(v) : i < j => SourceRank(v[i]) <= SourceRank(v[j])
           /\ \A i, j \in 1..Len(matched) :
                  i < j => CatalogIndex(matched[i]) <= CatalogIndex(matched[j])
           /\ \A k \in 1..Len(patterns) :
                  SelectSeq(matched, LAMBDA f : f.type = patterns[k].vuln_type)
                      = DetectPattern(code, patterns[k])
           /\ FromSource(v, 2) = MlAnomalyDetection(code)
           /\ FromSource(v, 3) = AssessQuantumResistance(quantum_patterns, code)
           /\ FromSource(v, 4) = MatchHistoricalExploits(historical_exploits, code)

\* findings of two patterns of the catalog, the second pattern's being of the
\* type of the quantum finding that follows them
C25_Witness ==
    /\ ReturnedFrom("analyze_program")
    /\ LET v == ret.value.vulnerabilities
       IN /\ Len(v) >= 3
          /\ SourceRank(v[1]) = 1
          /\ SourceRank(v[Len(v) - 1]) = 1
          /\ v[1].type # v[Len(v) - 1].type
          /\ v[Len(v) - 1].type = "quantum_vulnerable"
          /\ SourceRank(v[Len(v)]) = 3

\* the finding list v read from its end
Reversed(v) == [k \in 1..Len(v) |-> v[Len(v) + 1 - k]]

\* C26: the order of the findings does not change the verdict: a permutation of
\* a finding list has the same security score and the same risk level.  The
\* permutation taken here is the reversal of the list.
C26_OrderIndependent ==
    ReturnedFrom("_calculate_security_score") =>
        LET v == call.vulnerabilities
            w == Reversed(v)
            security_score == CalculateSecurityScore(w)
        IN /\ security_score = ret.value
           /\ DetermineRiskLevel(security_score, w) = DetermineRiskLevel(ret.value, v)

\* C27: for every source text given to analyze_program the largest feature is
\* the source length, so the guard-check ratio is at most 1/8 and the unsafe
\* ratio at most 1/6, the anomaly score is at most 0.70 and the result holds
\* no finding of type "anomaly_detected".
C27_NoAnomalyFinding ==
    ReturnedFrom("analyze_program") =>
        LET code == call.program_code
            raw == RawFeatures(code)
            features == ExtractFeatures(code)
        IN /\ SetMax({raw[k] : k \in 1..8}) = Len(code)
           /\ features[4] * 8 <= Unit
           /\ features[8] * 6 <= Unit
           /\ ComputeAnomalyScore(features) <= AnomalyThreshold
           /\ \A k \in 1..Len(ret.value.vulnerabilities) :
                  ret.value.vulnerabilities[k].type # "anomaly_detected"

\* a source made of unsafe markers only, whose unsafe ratio is 1/6
C27_Witness ==
    /\ ReturnedFrom("analyze_program")
    /\ Len(call.program_code) > 0
    /\ Count(call.program_code, "unsafe") * 6 = Len(call.program_code)
    /\ ret.value.vulnerabilities = << >>

\* C29: the quantum verdict agrees with the quantum findings of the same
\* result: when the quantum assessor gave a finding and the source holds no
\* quantum-safe indicator, quantum_resistant is false; and when
\* quantum_resistant is false, the findings hold a "quantum_vulnerable" finding
\* of the quantum assessor.
C29_VerdictAgreesWithFindings ==
    ReturnedFrom("analyze_program") =>
        LET assessed == FromSource(ret.value.vulnerabilities, 3)
        IN /\ (Len(assessed) >= 1 /\ ~SafeIndicatorPresent(call.program_code)) =>
                  ret.value.quantum_resistant = FALSE
           /\ ret.value.quantum_resistant = FALSE =>
                  \E k \in 1..Len(assessed) : assessed[k].type = "quantum_vulnerable"

\* the risk factor types whose score is above its threshold in the call
FactorsPresent ==
    (IF call.geopolitical_score > GeopoliticalThreshold THEN {"high"} ELSE {})
    \cup (IF call.monetary_policy_score > MonetaryPolicyThreshold
          THEN {"moderate"} ELSE {})
    \cup (IF SystemicRiskModel > SystemicThreshold THEN {"critical"} ELSE {})
    \cup (IF LiquidityRiskModel > LiquidityThreshold THEN {"elevated"} ELSE {})

\* C30: _assess_global_risk returns a risk assessment without raising for
\* every combination of the four risk scores, the one with no score above its
\* threshold included; overall_risk_level is the level of the most severe risk
\* factor present, and MODERATE when there is none.
C30_RiskAssessmentReturned ==
    (call.fn = "_assess_global_risk" /\ ret.status # "pending") =>
        /\ ret.status = "returned"
        /\ ret.value.overall_risk_level =
               (IF FactorsPresent = {} THEN "MODERATE"
                ELSE RiskLevelMap(CHOOSE s \in FactorsPresent :
                         \A t \in FactorsPresent : SeverityRank(t) <= SeverityRank(s)))
====
